---- MODULE Spec2Model ----
(***************************************************************************)
(* The safe-haven research scripts: safe-heaven-bitcoin.py ("bitcoin"),    *)
(* safe-heaven-spy.py ("spy") and safe-heaven.py ("heaven").               *)
(*                                                                         *)
(* Each script bins a column of annual returns with pd.cut, then calls its *)
(* bootstrap simulator (bitcoinSim / sp500Sim) on the binned table and     *)
(* reads quantile paths off the result with getQuantilePath.               *)
(*                                                                         *)
(* Numbers are exact fixed-point integers, so floating-point rounding is   *)
(* outside the model:                                                      *)
(*   a return r          is the integer r * RetDen     (units of 5%)       *)
(*   an allocation a     is the integer a * AllocDen   (units of 1/2)      *)
(*   a payoff factor p   is the integer p * PayDen     (units of 1/2)      *)
(*   a quantile level q  is the integer q * QDen       (units of 1/20)     *)
(***************************************************************************)
EXTENDS Integers, Sequences, FiniteSets, TLC

VARIABLES
    script,          \* which script is running
    pc,              \* "cut" | "sim" | "crashed", or "quantile" | "done"
    annual_returns,  \* df_rets['annual_returns'], the column handed to pd.cut
    edges,           \* the bins list handed to pd.cut
    cutStatus,       \* the binning block: "none" | "ok" | "ValueError" | "IndexError"
    df_agg,          \* the binned table: rows [index, returns, category, label]
    rngPos,          \* outputs consumed from the global np.random generator since seed(1234)
    call,            \* arguments and draws of the latest simulator call
    simStatus,       \* "none" | "ok" | "IndexError" | "ValueError"
    traj,            \* the matrix the latest simulator call returned
    trajectories,    \* getQuantilePath's argument
    q,               \* getQuantilePath's q
    quantile,        \* getQuantilePath's first result
    path,            \* getQuantilePath's second result (a row of trajectories)
    qStatus,         \* "none" | "ok" | "IndexError" | "ValueError"
    today,           \* datetime.now() of get_next_n_monthly_expiries, a day number
    n_months,        \* its argument n
    expiries,        \* the list it returned
    response,        \* best-payoff-latest.py: what requests.get(url) came to
    options,         \* options = fetch_deribit_data()
    prices,          \* the values calculate_put_price returns on this run
    scenarios,       \* iterations of the (drop, iv_increase) loops completed
    payoff_matrix,   \* <<>> until np.zeros allocates it
    strike_matrix,   \* <<>> until np.zeros allocates it
    best_overall_payoff,
    best_overall_details,
    best_strikes,    \* the dict, as its items in insertion order
    details,         \* the module-level name the option loop assigns
    stdout,          \* what the script printed
    chains,          \* efficient-price scripts: what ticker.option_chain comes to, per date
    chain_no,        \* dates the script has dealt with
    current_price,   \* <<>> until the name is assigned, then <<its value>>
    target_price,    \* <<>> until the name is assigned, then <<its value>>
    screened         \* the tables the screen produced, one per date screened

vars == <<script, pc, annual_returns, edges, cutStatus, df_agg, rngPos, call,
          simStatus, traj, trajectories, q, quantile, path, qStatus,
          today, n_months, expiries, response, options, prices, scenarios,
          payoff_matrix, strike_matrix, best_overall_payoff,
          best_overall_details, best_strikes, details, stdout,
          chains, chain_no, current_price, target_price, screened>>

simVars == <<rngPos, call, simStatus, traj>>
qVars == <<trajectories, q, quantile, path, qStatus>>
expiryVars == <<today, n_months, expiries>>
screenVars == <<chains, chain_no, current_price, target_price, screened>>

sweepVars == <<prices, scenarios, payoff_matrix, strike_matrix,
               best_overall_payoff, best_overall_details, best_strikes, details>>
payoffVars == <<response, options, sweepVars, stdout>>

\* the variables of the scripts that are not running
ExpiryIdle ==
    /\ today = 0
    /\ n_months = 0
    /\ expiries = <<>>

\* the efficient-price scripts before they run
ScreenIdle ==
    /\ chains = <<>>
    /\ chain_no = 0
    /\ current_price = <<>>
    /\ target_price = <<>>
    /\ screened = <<>>

\* best-payoff-latest.py before its sweep: no matrix, no best result, no details
SweepIdle ==
    /\ prices = <<>>
    /\ scenarios = 0
    /\ payoff_matrix = <<>>
    /\ strike_matrix = <<>>
    /\ best_overall_payoff = <<>>
    /\ best_overall_details = <<>>
    /\ best_strikes = <<>>
    /\ details = <<>>

PayoffIdle ==
    /\ response = <<>>
    /\ options = <<>>
    /\ SweepIdle
    /\ stdout = <<>>

(***************************************************************************)
(* Bounds of the model.                                                    *)
(***************************************************************************)
MaxPool == 2       \* longest annual_returns column of the simulator runs
MaxCut == 2        \* longest annual_returns column of the categorizer runs
MaxYears == 2      \* largest `years` argument
MaxSamples == 2    \* largest `samples` argument
MaxStream == 4     \* generator outputs one run may consume
MaxRows == 4       \* most rows of a matrix handed to getQuantilePath
MaxTerminal == 4   \* largest terminal value of such a matrix

(***************************************************************************)
(* Fixed-point denominators.                                               *)
(***************************************************************************)
RetDen == 20
AllocDen == 2
PayDen == 2
QDen == 20

Scripts == {"bitcoin", "spy", "heaven"}

(***************************************************************************)
(* Bin edges.  An edge is finite or one of the np.inf sentinels.           *)
(***************************************************************************)
Fin(v) == [inf |-> 0, v |-> v]
NegInf == [inf |-> -1, v |-> 0]
PosInf == [inf |-> 1, v |-> 0]

\* edge < x, for a finite x
EdgeLT(e, x) == e.inf = -1 \/ (e.inf = 0 /\ e.v < x)
\* edge <= x, for a finite x
EdgeLE(e, x) == e.inf = -1 \/ (e.inf = 0 /\ e.v <= x)
\* edge == x, for a finite x
EdgeEQ(e, x) == e.inf = 0 /\ e.v = x

\* bins = [-100, -0.15, 0, 0.15, 0.3, 100]            (bitcoin)
\* bins = [-10, -0.15, 0, 0.15, 0.3, 10]              (spy)
\* bins = [-np.inf, -0.5, -0.3, -0.15, 0, 0.15, 0.3, 0.5, np.inf]   (heaven)
bins(s) ==
    CASE s = "bitcoin" ->
           <<Fin(-100 * RetDen), Fin(-3), Fin(0), Fin(3), Fin(6), Fin(100 * RetDen)>>
      [] s = "spy" ->
           <<Fin(-10 * RetDen), Fin(-3), Fin(0), Fin(3), Fin(6), Fin(10 * RetDen)>>
      [] s = "heaven" ->
           <<NegInf, Fin(-10), Fin(-6), Fin(-3), Fin(0), Fin(3), Fin(6), Fin(10), PosInf>>

\* categories = [0, 1, 2, 3, 4]   /   list(range(len(bins) - 1))
categories(s) ==
    IF s = "heaven" THEN [i \in 1..(Len(edges) - 1) |-> i - 1]
    ELSE <<0, 1, 2, 3, 4>>

labels(s) ==
    IF s = "heaven"
    THEN <<"<-50%", "-50% to -30%", "-30% to -15%", "-15% to 0%",
           "0% to 15%", "15% to 30%", "30% to 50%", ">50%">>
    ELSE <<"<-15%", "-15% to 0%", "0% to 15%", "15% to 30%", ">30%">>

\* pd.cut(..., include_lowest=True) only in safe-heaven.py
include_lowest(s) == s = "heaven"

\* a < b for two edges
EdgeLess(a, b) == a.inf < b.inf \/ (a.inf = 0 /\ b.inf = 0 /\ a.v < b.v)

\* (np.diff(bins) < 0).any()
Decreases(b) == \E i \in 1..(Len(b) - 1) : EdgeLess(b[i + 1], b[i])

\* len(algos.unique(bins)) < len(bins)
HasDuplicates(b) == \E i, k \in DOMAIN b : i < k /\ b[i] = b[k]

\* pd.cut without its check of the order of the bins
PdCutErrorNoOrder(b, nlabels, lowest) ==
    IF HasDuplicates(b) /\ Len(b) # 2 THEN "ValueError"
    ELSE IF lowest /\ Len(b) = 0 THEN "IndexError"
    ELSE IF nlabels # Len(b) - 1 THEN "ValueError"
    ELSE "none"

(***************************************************************************)
(* What pd.cut(x, bins, labels=<a list of nlabels>) raises, if anything:    *)
(*   "bins must increase monotonically."                    ValueError      *)
(*   "Bin edges must be unique" (unless len(bins) == 2)     ValueError      *)
(*   include_lowest reads bins[0]                           IndexError      *)
(*   "Bin labels must be one fewer than the number of bin edges" ValueError *)
(***************************************************************************)
PdCutError(b, nlabels, lowest) ==
    IF Decreases(b) THEN "ValueError"
    ELSE IF HasDuplicates(b) /\ Len(b) # 2 THEN "ValueError"
    ELSE IF lowest /\ Len(b) = 0 THEN "IndexError"
    ELSE IF nlabels # Len(b) - 1 THEN "ValueError"
    ELSE "none"

\* the error of cats = pd.cut(..., labels=categories), else that of
\* labs = pd.cut(..., labels=labels), else "none"
CutError(s) ==
    LET cats == PdCutError(edges, Len(categories(s)), include_lowest(s))
    IN  IF cats # "none" THEN cats
        ELSE PdCutError(edges, Len(labels(s)), include_lowest(s))

(***************************************************************************)
(* pd.cut(x, bins, labels=...) with the default right=True.                *)
(*   ids = bins.searchsorted(x, side="left")                               *)
(*   if include_lowest: ids[x == bins[0]] = 1                              *)
(*   na_mask = (ids == len(bins)) | (ids == 0)                             *)
(*   result = labels[ids - 1], NaN where na_mask                           *)
(***************************************************************************)
SearchsortedRight(b, x) == Cardinality({i \in DOMAIN b : EdgeLE(b[i], x)})

\* side="left": the number of edges strictly below x
SearchsortedLeft(b, x) == Cardinality({i \in DOMAIN b : EdgeLT(b[i], x)})

CutIds(b, x, lowest) ==
    IF lowest /\ EdgeEQ(b[1], x) THEN 1 ELSE SearchsortedLeft(b, x)

\* the 1-based bin number of x, or 0 for NaN
CutBin(b, x, lowest) ==
    LET ids == CutIds(b, x, lowest)
    IN  IF ids = Len(b) \/ ids = 0 THEN 0 ELSE ids

IsNaN(c) == c.nan

\* one cell of cats = pd.cut(annual_returns, bins, labels=categories)
Cut(s, x) ==
    LET k == CutBin(edges, x, include_lowest(s))
    IN  IF k = 0 THEN [nan |-> TRUE, code |-> 0, label |-> "NaN"]
        ELSE [nan |-> FALSE, code |-> categories(s)[k], label |-> labels(s)[k]]

\* df_agg = pd.concat([df_rets, cats, labs], axis=1): row i carries index label i-1
Concat(s, rets) ==
    [i \in DOMAIN rets |->
        [index |-> i - 1, returns |-> rets[i], category |-> Cut(s, rets[i])]]

NotNaNRow(row) == ~IsNaN(row.category)

\* df_agg.dropna(subset=['category'], inplace=True): the index labels are kept
DropNa(rows) == SelectSeq(rows, NotNaNRow)

HasNaN(rows) == \E i \in DOMAIN rows : IsNaN(rows[i].category)

\* the table after df_agg['category'] = df_agg['category'].astype(int)
AsInt(rows) ==
    [i \in DOMAIN rows |->
        [index |-> rows[i].index, returns |-> rows[i].returns,
         category |-> rows[i].category.code, label |-> rows[i].category.label]]

(***************************************************************************)
(* The binning block of a script: pd.cut, concat, (dropna,) astype(int).   *)
(* pd.cut raises on a bins list it rejects, astype(int) raises ValueError  *)
(* on a NaN category; either way the script ends.                          *)
(***************************************************************************)
Categorize ==
    /\ pc = "cut"
    /\ IF CutError(script) # "none"
       THEN /\ pc' = "crashed"
            /\ cutStatus' = CutError(script)
            /\ df_agg' = <<>>
       ELSE LET raw == Concat(script, annual_returns)
                kept == IF script = "heaven" THEN DropNa(raw) ELSE raw
            IN  IF HasNaN(kept)
                THEN /\ pc' = "crashed"
                     /\ cutStatus' = "ValueError"
                     /\ df_agg' = <<>>
                ELSE /\ pc' = "sim"
                     /\ cutStatus' = "ok"
                     /\ df_agg' = AsInt(kept)
    /\ UNCHANGED <<script, annual_returns, edges>>
    /\ UNCHANGED expiryVars
    /\ UNCHANGED screenVars
    /\ UNCHANGED payoffVars
    /\ UNCHANGED simVars
    /\ UNCHANGED qVars

(***************************************************************************)
(* The simulator: bitcoinSim (bitcoin, heaven) and sp500Sim (spy), which   *)
(* are the same code but for the draw: bitcoin and spy draw index labels,  *)
(* np.random.choice(data.index, ...), heaven draws positions,              *)
(* np.random.choice(data.index.size, ...).                                 *)
(***************************************************************************)

\* allocation arguments, in halves: -0.5, 0, 0.5, 1, 1.5
AllocChoices == {-1, 0, 1, 2, 3}

\* the default payoffs=[5.34, 0, 0, 0, 0] / [8.62, ...] / [5.39, ...], in halves
DefaultPayoffs(s) ==
    CASE s = "bitcoin" -> <<11, 0, 0, 0, 0>>
      [] s = "spy" -> <<17, 0, 0, 0, 0>>
      [] s = "heaven" -> <<11, 0, 0, 0, 0>>

\* payoffs = [ins_cost0 * c, 0, 0, 0, 0] of the cost sweep, at a c where it is 5.0
SweepPayoffs(s) == <<10, 0, 0, 0, 0>>

\* a payoff of 1.0 for every category of the bins in use
OnesPayoffs(s) == [i \in DOMAIN categories(s) |-> PayDen]

\* the payoff lists handed to the simulator: those the scripts pass, and the
\* all-ones list
PayoffChoices(s) == {DefaultPayoffs(s), SweepPayoffs(s), OnesPayoffs(s)}

\* a[i] for a numpy array of length n: negative i counts from the end
InBounds(i, n) == -n <= i /\ i < n
Position(i, n) == IF i < 0 THEN n + i + 1 ELSE i + 1

\* every script drawing index labels
ChoiceOfLabels(s, rows, idx) ==
    [i \in DOMAIN idx |-> [t \in DOMAIN idx[i] |-> rows[idx[i][t] + 1].index]]

\* np.random.choice(a, size): idx = randint(0, len(a), size); return a[idx]
Choice(s, rows, idx) ==
    [i \in DOMAIN idx |-> [t \in DOMAIN idx[i] |->
        IF s = "heaven" THEN idx[i][t] ELSE rows[idx[i][t] + 1].index]]

\* randint(0, 1) returns 0 without reading the generator
Consumed(M, years, samples) == IF M > 1 THEN samples * years ELSE 0

\* the labels a matrix of draws holds
Drawn(sims) == UNION {{sims[i][t] : t \in DOMAIN sims[i]} : i \in DOMAIN sims}

\* (1 - allocation) * (data['returns'].values[sims] + 1), times AllocDen * RetDen
RiskRetsNoPlusOne(allocation, r) == (AllocDen - allocation) * r

RiskRets(allocation, r) == (AllocDen - allocation) * (r + RetDen)

\* allocation * payoffs[ret_cats], times AllocDen * PayDen
SafeHavenRets(allocation, p) == allocation * p

CombinedMinus(risk, safe) == risk * PayDen - safe * RetDen

\* risk_rets + safe_haven_rets, times AllocDen * RetDen * PayDen
Combined(risk, safe) == risk * PayDen + safe * RetDen

RECURSIVE CumSum(_)
CumSum(row) ==
    IF Len(row) <= 1 THEN row
    ELSE LET head == CumSum(SubSeq(row, 1, Len(row) - 1))
         IN  Append(head, head[Len(head)] + row[Len(row)])

\* np.cumprod(row): the running product; column t is scaled by
\* (AllocDen * RetDen * PayDen)^t
RECURSIVE CumProd(_)
CumProd(row) ==
    IF Len(row) <= 1 THEN row
    ELSE LET head == CumProd(SubSeq(row, 1, Len(row) - 1))
         IN  Append(head, head[Len(head)] * row[Len(row)])

\* the caller's list once the call is over: np.asarray(payoffs) builds a new
\* array and rebinds the local name, the list itself is only read
ListAfter(payoffs) == payoffs

\* data['returns'] += 1 done in place
DataPlusOne(rows) ==
    [i \in DOMAIN rows |-> [rows[i] EXCEPT !.returns = @ + RetDen]]

\* the caller's data frame once the call is over: data[...].values[sims] copies
\* what it reads
DataAfter(rows) == rows

Args(allocation, payoffs, years, samples, sims) ==
    [allocation |-> allocation, payoffs |-> payoffs, years |-> years,
     samples |-> samples, sims |-> sims, rngBefore |-> rngPos,
     caller_payoffs |-> ListAfter(payoffs)]

\* what the body of the simulator makes of the drawn labels sims: the error of
\* the first failing indexing, or the matrix
Outcome(allocation, payoffs, sims) ==
    LET M == Len(df_agg)
        InData(l) == InBounds(l, M)
        row(l) == df_agg[Position(l, M)]
        InPayoffs(l) == InBounds(row(l).category, Len(payoffs))
        payoff(l) == payoffs[Position(row(l).category, Len(payoffs))]
        combined == [i \in DOMAIN sims |-> [t \in DOMAIN sims[i] |->
            Combined(RiskRets(allocation, row(sims[i][t]).returns),
                     SafeHavenRets(allocation, payoff(sims[i][t])))]]
    IN  IF \E l \in Drawn(sims) : ~InData(l)
        THEN [status |-> "IndexError", traj |-> <<>>]
        ELSE IF \E l \in Drawn(sims) : ~InPayoffs(l)
        THEN [status |-> "IndexError", traj |-> <<>>]
        ELSE [status |-> "ok",
              traj |-> [i \in DOMAIN combined |-> CumProd(combined[i])]]

Raise(error) ==
    /\ simStatus' = error
    /\ traj' = <<>>
    /\ pc' = "crashed"

bitcoinSim(allocation, payoffs, years, samples) ==
    /\ pc = "sim"
    /\ UNCHANGED <<script, annual_returns, edges, cutStatus>>
    /\ UNCHANGED expiryVars
    /\ UNCHANGED screenVars
    /\ UNCHANGED payoffVars
    /\ df_agg' = DataAfter(df_agg)
    /\ UNCHANGED qVars
    /\ LET M == Len(df_agg)
       IN  IF years < 0 \/ samples < 0 \/ (M = 0 /\ samples * years # 0)
           THEN \* np.random.choice raises before it draws
                /\ Raise("ValueError")
                /\ rngPos' = rngPos
                /\ call' = Args(allocation, payoffs, years, samples, <<>>)
           ELSE /\ rngPos + Consumed(M, years, samples) <= MaxStream
                /\ \E idx \in [1..samples -> [1..years -> 0..(M - 1)]] :
                     LET sims == Choice(script, df_agg, idx)
                         out == Outcome(allocation, payoffs, sims)
                     IN  /\ rngPos' = rngPos + Consumed(M, years, samples)
                         /\ call' = Args(allocation, payoffs, years, samples, sims)
                         /\ IF out.status # "ok" THEN Raise(out.status)
                            ELSE /\ simStatus' = "ok"
                                 /\ traj' = out.traj
                                 /\ pc' = "sim"

\* the first simulator call of a run, e.g. traj = bitcoinSim(df_agg, allocation=0)
SimCall ==
    /\ simStatus = "none"
    /\ \E allocation \in AllocChoices, payoffs \in PayoffChoices(script),
          years \in -1..MaxYears, samples \in -1..MaxSamples :
           bitcoinSim(allocation, payoffs, years, samples)

\* the smoothing loops, for i in range(N): ... bitcoinSim(df_agg, allocation=f):
\* the same arguments are passed again, the generator having moved on
RepeatCall ==
    /\ simStatus = "ok"
    /\ bitcoinSim(call.allocation, call.payoffs, call.years, call.samples)

NoCall == [allocation |-> 0, payoffs |-> <<>>, years |-> 0, samples |-> 0,
           sims |-> <<>>, rngBefore |-> 0, caller_payoffs |-> <<>>]

\* returns of the simulator runs, in units of 5%: -20%, +10%, +40%
PoolReturns == {-4, 2, 8}

SeqsUpTo(S, n) == UNION {[1..k -> S] : k \in 1..n}

QuantileIdle ==
    /\ trajectories = <<>>
    /\ q = 0
    /\ quantile = 0
    /\ path = <<>>
    /\ qStatus = "none"

\* a script after np.random.seed(1234) and the loading of its returns column
Init ==
    /\ script \in Scripts
    /\ pc = "cut"
    /\ annual_returns \in SeqsUpTo(PoolReturns, MaxPool)
    /\ edges = bins(script)
    /\ cutStatus = "none"
    /\ df_agg = <<>>
    /\ rngPos = 0
    /\ call = NoCall
    /\ simStatus = "none"
    /\ traj = <<>>
    /\ QuantileIdle
    /\ ExpiryIdle
    /\ ScreenIdle
    /\ PayoffIdle

Next == Categorize \/ SimCall \/ RepeatCall

Spec == Init /\ [][Next]_vars

(***************************************************************************)
(* The scripts on a pool that loses rows: safe-heaven.py with a finite     *)
(* last edge (+55%) in place of np.inf, so that a return above it gets a   *)
(* NaN category and dropna removes its row, leaving a gap in the index     *)
(* labels.                                                                 *)
(***************************************************************************)
Capped(b) == [b EXCEPT ![Len(b)] = Fin(11)]

\* -20%, +10%, +60%
DrawReturns == {-4, 2, 12}

DrawEdges(s) == IF s = "heaven" THEN {bins(s), Capped(bins(s))} ELSE {bins(s)}

InitDraw ==
    /\ script \in Scripts
    /\ pc = "cut"
    /\ annual_returns \in SeqsUpTo(DrawReturns, MaxPool)
    /\ edges \in DrawEdges(script)
    /\ cutStatus = "none"
    /\ df_agg = <<>>
    /\ rngPos = 0
    /\ call = NoCall
    /\ simStatus = "none"
    /\ traj = <<>>
    /\ QuantileIdle
    /\ ExpiryIdle
    /\ ScreenIdle
    /\ PayoffIdle

NextDraw == Categorize \/ SimCall \/ RepeatCall

SpecDraw == InitDraw /\ [][NextDraw]_vars

(***************************************************************************)
(* The categorizer on its own: any column of feasible annual returns       *)
(* (a return exceeds -100%), among them every interior edge and values     *)
(* beyond the finite outer edges of bitcoin and spy.                       *)
(***************************************************************************)
CutReturns ==
    {-19, -11, -10, -7, -6, -4, -3, -1, 0, 1, 3, 4, 6, 8, 10, 11,
     10 * RetDen, 10 * RetDen + 1, 100 * RetDen, 100 * RetDen + 1}

InitCut ==
    /\ script \in Scripts
    /\ pc = "cut"
    /\ annual_returns \in SeqsUpTo(CutReturns, MaxCut)
    /\ edges = bins(script)
    /\ cutStatus = "none"
    /\ df_agg = <<>>
    /\ rngPos = 0
    /\ call = NoCall
    /\ simStatus = "none"
    /\ traj = <<>>
    /\ QuantileIdle
    /\ ExpiryIdle
    /\ ScreenIdle
    /\ PayoffIdle

NextCut == Categorize

SpecCut == InitCut /\ [][NextCut]_vars

(***************************************************************************)
(* The binning block on a bins list other than the one the script spells   *)
(* out: the literal with two neighbouring edges exchanged, with an edge    *)
(* repeated, cut short, or reduced to one edge twice.  The categories and  *)
(* labels lists are the script's.                                          *)
(***************************************************************************)
MaxBinRows == 2    \* longest annual_returns column of these runs

Swap(b, i) ==
    [k \in DOMAIN b |-> IF k = i THEN b[i + 1] ELSE IF k = i + 1 THEN b[i] ELSE b[k]]

Repeat(b, i) == [k \in DOMAIN b |-> IF k = i + 1 THEN b[i] ELSE b[k]]

EdgeEdits(s) ==
    {bins(s), <<bins(s)[2], bins(s)[2]>>}
      \cup {Swap(bins(s), i) : i \in 1..(Len(bins(s)) - 1)}
      \cup {Repeat(bins(s), i) : i \in 1..(Len(bins(s)) - 1)}
      \cup {SubSeq(bins(s), 1, k) : k \in 0..(Len(bins(s)) - 1)}

\* -20%, 0%, +15%, +40%
BinReturns == {-4, 0, 3, 8}

InitBins ==
    /\ script \in Scripts
    /\ pc = "cut"
    /\ annual_returns \in SeqsUpTo(BinReturns, MaxBinRows)
    /\ edges \in EdgeEdits(script)
    /\ cutStatus = "none"
    /\ df_agg = <<>>
    /\ rngPos = 0
    /\ call = NoCall
    /\ simStatus = "none"
    /\ traj = <<>>
    /\ QuantileIdle
    /\ ExpiryIdle
    /\ ScreenIdle
    /\ PayoffIdle

NextBins == Categorize

SpecBins == InitBins /\ [][NextBins]_vars

(***************************************************************************)
(* getQuantilePath(trajectories, q).  A matrix is [nrows, ncols, rows].    *)
(* q is in units of 1/QDen and quantile is stored times QDen.              *)
(***************************************************************************)
Abs(x) == IF x < 0 THEN -x ELSE x

\* trajectories[:, -1]
Terminal(m) == [i \in 1..m.nrows |-> m.rows[i][m.ncols]]

RECURSIVE Insert(_, _)
Insert(sorted, x) ==
    IF sorted = <<>> THEN <<x>>
    ELSE IF x <= Head(sorted) THEN <<x>> \o sorted
    ELSE <<Head(sorted)>> \o Insert(Tail(sorted), x)

RECURSIVE Sort(_)
Sort(col) == IF col = <<>> THEN <<>> ELSE Insert(Sort(Tail(col)), Head(col))

\* np.quantile(col, q), method "linear": with h = q * (n - 1), j = floor(h) and
\* g = h - j the result is sorted[j] + g * (sorted[j + 1] - sorted[j])
Quantile(col, qq) ==
    LET n == Len(col)
        sorted == Sort(col)
        h == qq * (n - 1)
        j == h \div QDen
        g == h % QDen
        lo == sorted[j + 1]
        hi == sorted[IF j + 2 <= n THEN j + 2 ELSE n]
    IN  lo * QDen + g * (hi - lo)

\* np.abs(quantile - col), with quantile and the result times QDen
AbsDiff(qu, col) == [i \in DOMAIN col |-> Abs(qu - col[i] * QDen)]

RECURSIVE ArgMinLastScan(_, _, _)
ArgMinLastScan(a, i, best) ==
    IF i > Len(a) THEN best
    ELSE ArgMinLastScan(a, i + 1, IF a[i] <= a[best] THEN i ELSE best)

ArgMinLast(a) == ArgMinLastScan(a, 2, 1)

RECURSIVE ArgMaxScan(_, _, _)
ArgMaxScan(a, i, best) ==
    IF i > Len(a) THEN best
    ELSE ArgMaxScan(a, i + 1, IF a[i] > a[best] THEN i ELSE best)

ArgMax(a) == ArgMaxScan(a, 2, 1)

\* a.argmin() scans from the front and keeps the first minimum
RECURSIVE ArgMinScan(_, _, _)
ArgMinScan(a, i, best) ==
    IF i > Len(a) THEN best
    ELSE ArgMinScan(a, i + 1, IF a[i] < a[best] THEN i ELSE best)

\* the position (1-based here) of the first minimum of a
ArgMin(a) == ArgMinScan(a, 2, 1)

\* the failure swallowed: the call returns (nan, empty) instead of raising
QReturnNone(errors) ==
    /\ qStatus' = "ok"
    /\ quantile' = 0
    /\ path' = <<>>

QRaise(errors) ==
    /\ qStatus' \in errors
    /\ quantile' = 0
    /\ path' = <<>>

getQuantilePath ==
    /\ pc = "quantile"
    /\ pc' = "done"
    /\ UNCHANGED <<script, annual_returns, edges, cutStatus, df_agg, trajectories, q>>
    /\ UNCHANGED expiryVars
    /\ UNCHANGED screenVars
    /\ UNCHANGED payoffVars
    /\ UNCHANGED simVars
    /\ IF trajectories.ncols = 0
       THEN \* trajectories[:, -1] is out of bounds for axis 1 with size 0
            QRaise({"IndexError"})
       ELSE IF trajectories.nrows = 0
       THEN \* np.quantile of an empty column raises IndexError or gives nan,
            \* by numpy version; argmin of an empty column raises ValueError
            QRaise({"IndexError", "ValueError"})
       ELSE LET col == Terminal(trajectories)
                qu == Quantile(col, q)
            IN  /\ qStatus' = "ok"
                /\ quantile' = qu
                /\ path' = trajectories.rows[ArgMin(AbsDiff(qu, col))]

\* q = 0, 0.05, 0.5, 0.95, 1
QChoices == {0, 1, 10, 19, 20}

\* the matrices of the extractor runs: the terminal column is free, an earlier
\* column, if any, holds the row number
Matrices ==
    {[nrows |-> n, ncols |-> y,
      rows |-> [i \in 1..n |-> IF y = 2 THEN <<i, col[i]>>
                                ELSE IF y = 1 THEN <<col[i]>> ELSE <<>>]] :
        n \in 0..MaxRows, y \in 0..2, col \in [1..MaxRows -> 1..MaxTerminal]}

InitQuantile ==
    /\ script \in Scripts
    /\ pc = "quantile"
    /\ annual_returns = <<>>
    /\ edges = bins(script)
    /\ cutStatus = "none"
    /\ df_agg = <<>>
    /\ rngPos = 0
    /\ call = NoCall
    /\ simStatus = "none"
    /\ traj = <<>>
    /\ trajectories \in Matrices
    /\ q \in QChoices
    /\ quantile = 0
    /\ path = <<>>
    /\ qStatus = "none"
    /\ ExpiryIdle
    /\ ScreenIdle
    /\ PayoffIdle

NextQuantile == getQuantilePath

SpecQuantile == InitQuantile /\ [][NextQuantile]_vars

(***************************************************************************)
(* get_next_n_monthly_expiries(n) of safe-heaven-eff-price-opt.py          *)
(* ("eff-price-opt") and safe-heaven-eff-price-opt-bs.py                   *)
(* ("eff-price-opt-bs").  A datetime is the number of days since           *)
(* 2026-01-01 (a Thursday); the time of day of datetime.now() is carried   *)
(* unchanged through replace(day=1) and + timedelta(days=...), so it       *)
(* decides no comparison and is left out.  A month is counted from         *)
(* January 2026 = 0.                                                       *)
(***************************************************************************)
MaxToday == 364    \* latest day of datetime.now(): 2026-12-31
MaxN == 3          \* largest argument n

EpochYear == 2026
\* datetime(2026, 1, 1).weekday(), Monday being 0
EpochWeekday == 3

ExpiryScripts == {"eff-price-opt", "eff-price-opt-bs"}

YearOf(m) == EpochYear + (m \div 12)

DaysIn(m) ==
    IF m % 12 = 1 THEN (IF YearOf(m) % 4 = 0 THEN 29 ELSE 28)
    ELSE IF m % 12 \in {3, 5, 8, 10} THEN 30
    ELSE 31

\* the day number of the first day of month m
RECURSIVE MonthStart(_)
MonthStart(m) == IF m = 0 THEN 0 ELSE MonthStart(m - 1) + DaysIn(m - 1)

RECURSIVE MonthFrom(_, _)
MonthFrom(m, d) == IF d < MonthStart(m + 1) THEN m ELSE MonthFrom(m + 1, d)

\* the month day d lies in
MonthOf(d) == MonthFrom(0, d)

\* d.replace(day=1)
ReplaceDay1(d) == MonthStart(MonthOf(d))

\* d.weekday()
Weekday(d) == (EpochWeekday + d) % 7

\* first + timedelta(days=(4 - first.weekday() + 7) % 7 + 14)
ThirdFriday(first) == first + ((4 - Weekday(first) + 7) % 7) + 14

\* d.strftime('%Y-%m-%d'), as its three fields
Strftime(d) ==
    [year |-> YearOf(MonthOf(d)),
     month |-> (MonthOf(d) % 12) + 1,
     day |-> d - MonthStart(MonthOf(d)) + 1]

\* while len(expiries) < n: ... if third_friday > today: expiries.append(...)
RECURSIVE WhileLoop(_, _, _, _)
WhileLoop(now, count, current_month, acc) ==
    IF Len(acc) >= count THEN acc
    ELSE LET next_month == current_month + 32
             third_friday == ThirdFriday(ReplaceDay1(next_month))
         IN  WhileLoop(now, count, next_month,
                       IF third_friday > now
                       THEN Append(acc, Strftime(third_friday)) ELSE acc)

\* for _ in range(n): ... expiries.append(...)
RECURSIVE ForLoop(_, _, _)
ForLoop(left, current_month, acc) ==
    IF left <= 0 THEN acc
    ELSE LET next_month == current_month + 32
             third_friday == ThirdFriday(ReplaceDay1(next_month))
         IN  ForLoop(left - 1, next_month, Append(acc, Strftime(third_friday)))

get_next_n_monthly_expiries(s, now, count) ==
    IF s = "eff-price-opt" THEN WhileLoop(now, count, ReplaceDay1(now), <<>>)
    ELSE ForLoop(count, ReplaceDay1(now), <<>>)

\* expiry_dates = get_next_n_monthly_expiries(3)
GetExpiries ==
    /\ pc = "expiry"
    /\ pc' = "returned"
    /\ expiries' = get_next_n_monthly_expiries(script, today, n_months)
    /\ UNCHANGED <<script, annual_returns, edges, cutStatus, df_agg, today, n_months>>
    /\ UNCHANGED simVars
    /\ UNCHANGED qVars
    /\ UNCHANGED payoffVars
    /\ UNCHANGED screenVars

InitExpiry ==
    /\ script \in ExpiryScripts
    /\ pc = "expiry"
    /\ today \in 0..MaxToday
    /\ n_months \in 0..MaxN
    /\ expiries = <<>>
    /\ annual_returns = <<>>
    /\ edges = <<>>
    /\ cutStatus = "none"
    /\ df_agg = <<>>
    /\ rngPos = 0
    /\ call = NoCall
    /\ simStatus = "none"
    /\ traj = <<>>
    /\ QuantileIdle
    /\ PayoffIdle
    /\ ScreenIdle

NextExpiry == GetExpiries

SpecExpiry == InitExpiry /\ [][NextExpiry]_vars

(***************************************************************************)
(* best-payoff-latest.py ("best-payoff").                                  *)
(*                                                                         *)
(* Money is in units of 1/MoneyDen dollars, an ask price in units of       *)
(* 1/AskDen BTC, a total payoff in units of 1/TotalDen.                    *)
(* calculate_put_price needs log, exp and the normal distribution, which   *)
(* integers do not have: its value for option k under scenario (i, j) is   *)
(* prices[k][i][j], fixed when the sweep starts and drawn from surfaces    *)
(* that do not fall as the price drop or the volatility grows.             *)
(***************************************************************************)
MaxOptions == 2    \* most entries of data['result']
NDrops == 2        \* entries of price_drops the sweep runs over
NIvs == 2          \* entries of iv_increases the sweep runs over

MoneyDen == 2
AskDen == 100000
TotalDen == 2000

budget == 1000

\* price_drops and iv_increases, in percent
price_drops == <<-10, -20, -30, -40>>
iv_increases == <<0, 10, 20, 30, 40, 50, 60, 80, 100>>

\* float(token) for the strike fields in use
Float(token) ==
    CASE token = "30000" -> 30000
      [] token = "40000" -> 40000
      [] token = "45000" -> 45000
      [] token = "48000" -> 48000
      [] token = "50000" -> 50000

\* an entry of data['result']; instrument_name is its '-'-separated fields
Entry(strike, ask) ==
    [instrument_name |-> <<"BTC", "25DEC26", strike, "P">>,
     mark_price |-> 1, mark_iv |-> 60,
     ask_none |-> FALSE, ask_price |-> ask,
     underlying_price |-> 50000,
     days |-> 50]

\* entries the filter keeps: asks of $250, $500, $1250 (above the budget) and
\* $0.50 (below the $1 the script insists on)
GoodEntries ==
    {Entry("40000", 500), Entry("45000", 1000), Entry("48000", 2500),
     [Entry("30000", 1) EXCEPT !.days = 30]}

\* entries the filter drops: a call, no mark price, no underlying price, a
\* strike at the underlying price, no ask, a zero ask, 29 days to expiry
BadEntries ==
    {[Entry("40000", 500) EXCEPT
         !.instrument_name = <<"BTC", "25DEC26", "40000", "C">>],
     [Entry("40000", 500) EXCEPT !.mark_price = 0],
     [Entry("40000", 500) EXCEPT !.underlying_price = 0],
     Entry("50000", 500),
     [Entry("40000", 500) EXCEPT !.ask_none = TRUE],
     Entry("40000", 0),
     [Entry("40000", 500) EXCEPT !.days = 29]}

RawOptions == GoodEntries \cup BadEntries

SeqsFromZero(S, len) == UNION {[1..k -> S] : k \in 0..len}

\* what requests.get(url) ... response.json() comes to
Responses ==
    {[kind |-> "RequestException", result |-> <<>>],
     [kind |-> "no_result", result |-> <<>>]}
      \cup {[kind |-> "result", result |-> r] : r \in SeqsFromZero(RawOptions, MaxOptions)}

\* float(option['instrument_name'].split('-')[-2])
StrikeOf(option) == Float(option.instrument_name[Len(option.instrument_name) - 1])

\* '-P' in option['instrument_name']
IsPut(option) ==
    \E t \in 2..Len(option.instrument_name) : option.instrument_name[t] = "P"

\* a filter without the expiry condition
KeepAnyExpiry(option) ==
    /\ IsPut(option)
    /\ option.mark_price > 0
    /\ option.underlying_price > 0
    /\ StrikeOf(option) < option.underlying_price
    /\ ~option.ask_none /\ option.ask_price > 0

\* the condition of the list comprehension; days is
\* (datetime.strptime(expiry, "%d%b%y") - datetime.now()).days
Keep(option) ==
    /\ IsPut(option)
    /\ option.mark_price > 0
    /\ option.underlying_price > 0
    /\ StrikeOf(option) < option.underlying_price
    /\ ~option.ask_none /\ option.ask_price > 0
    /\ option.days >= 30

\* the dict built for an entry that is kept
PutOption(option) ==
    [strike |-> StrikeOf(option),
     iv |-> option.mark_iv,
     marketPrice |-> (option.ask_price * option.underlying_price * MoneyDen) \div AskDen,
     underlying_price |-> option.underlying_price,
     instrument_name |-> option.instrument_name,
     num_contracts |-> -1]      \* -1: the key is not set yet

fetch_deribit_data(resp) ==
    IF resp.kind = "RequestException" THEN <<>>
    ELSE IF resp.kind = "no_result" THEN <<>>
    ELSE LET kept == SelectSeq(resp.result, Keep)
         IN  [k \in DOMAIN kept |-> PutOption(kept[k])]

\* what fetch_deribit_data prints
FetchMessage(resp) ==
    IF resp.kind = "RequestException" THEN <<"Error fetching data from Deribit API">>
    ELSE IF resp.kind = "no_result" THEN <<"Error: No result found in API response.">>
    ELSE <<>>

\* what best-payoff-latest.py has no access to
notPayoffVars ==
    <<annual_returns, edges, cutStatus, df_agg, simVars, qVars, expiryVars,
      screenVars>>

\* options = fetch_deribit_data()
Fetch ==
    /\ pc = "fetch"
    /\ pc' = "guard"
    /\ options' = fetch_deribit_data(response)
    /\ stdout' = stdout \o FetchMessage(response)
    /\ UNCHANGED <<script, response, sweepVars>>
    /\ UNCHANGED notPayoffVars

\* a guard that lets an empty list through
NeverEmpty(opts) == FALSE

\* not options
NotOptions(opts) == opts = <<>>

\* if not options: print(...); exit()
Guard ==
    /\ pc = "guard"
    /\ IF NotOptions(options)
       THEN /\ pc' = "exited"
            /\ stdout' = Append(stdout, "No options data fetched. Exiting script.")
       ELSE /\ pc' = "wtf"
            /\ stdout' = stdout
    /\ UNCHANGED <<script, response, options, sweepVars>>
    /\ UNCHANGED notPayoffVars

\* the surfaces calculate_put_price may follow for one option
Surface(base, drop_gain, iv_gain) ==
    [i \in 1..NDrops |-> [j \in 1..NIvs |->
        base + (i - 1) * drop_gain + (j - 1) * iv_gain]]

Surfaces ==
    {Surface(base, drop_gain, iv_gain) :
        base \in {0, 3000}, drop_gain \in {0, 2000}, iv_gain \in {0, 1000}}

Zeros == [i \in 1..NDrops |-> [j \in 1..NIvs |-> Fin(0)]]

\* for option in options: if option['marketPrice'] < 1: print("WTF", option); exit()
\* and, when no option is that cheap, lines 56 to 81
PriceCheck ==
    /\ pc = "wtf"
    /\ IF \E k \in DOMAIN options : options[k].marketPrice < 1 * MoneyDen
       THEN /\ pc' = "exited"
            /\ stdout' = Append(stdout, "WTF")
            /\ UNCHANGED sweepVars
       ELSE /\ pc' = "sweep"
            /\ stdout' = stdout
            /\ prices' \in [DOMAIN options -> Surfaces]
            /\ scenarios' = 0
            /\ payoff_matrix' = Zeros
            /\ strike_matrix' = Zeros
            /\ best_overall_payoff' = NegInf
            /\ best_overall_details' = <<>>
            /\ best_strikes' = <<>>
            /\ details' = <<>>
    /\ UNCHANGED <<script, response, options>>
    /\ UNCHANGED notPayoffVars

\* a division that rounds up
NumContractsRoundedUp(option) ==
    (budget * MoneyDen + option.marketPrice - 1) \div option.marketPrice

\* budget // option['marketPrice']
NumContracts(option) == (budget * MoneyDen) \div option.marketPrice

\* payoff * num_contracts with payoff = (new_option_price - marketPrice) / marketPrice,
\* times TotalDen
TotalPayoff(option, new_option_price) ==
    ((new_option_price - option.marketPrice) * NumContracts(option) * TotalDen)
        \div option.marketPrice

BetterOrEqual(total_payoff, best_payoff) == ~EdgeLess(total_payoff, best_payoff)

\* total_payoff > best_payoff
Better(total_payoff, best_payoff) == EdgeLess(best_payoff, total_payoff)

OverallBetterOrEqual(best_payoff, overall) == ~EdgeLess(best_payoff, overall)

\* best_payoff > best_overall_payoff
OverallBetter(best_payoff, overall) == EdgeLess(overall, best_payoff)

\* the dict assigned to details
Details(i, j, option, new_option_price) ==
    [drop |-> price_drops[i],
     iv_increase |-> iv_increases[j],
     strike |-> option.strike,
     instrument_name |-> option.instrument_name,
     market_price |-> option.marketPrice,
     new_option_price |-> new_option_price,
     num_contracts |-> NumContracts(option),
     total_payoff |-> NumContracts(option) * new_option_price,
     amount_spent |-> NumContracts(option) * option.marketPrice,
     payoff |-> [num |-> new_option_price - option.marketPrice,
                 den |-> option.marketPrice]]

\* for option in options: ... from option k on; loop carries best_payoff,
\* best_strike, best_strike_details (as the option's number, 0 for None),
\* details and the options list, whose best entries get their num_contracts key
RECURSIVE OptionLoop(_, _, _, _)
OptionLoop(k, i, j, loop) ==
    IF k > Len(loop.options) THEN loop
    ELSE LET option == loop.options[k]
             new_option_price == prices[k][i][j]
             total_payoff == Fin(TotalPayoff(option, new_option_price))
         IN  OptionLoop(k + 1, i, j,
                IF Better(total_payoff, loop.best_payoff)
                THEN [best_payoff |-> total_payoff,
                      best_strike |-> option.strike,
                      best_strike_details |-> k,
                      details |-> Details(i, j, option, new_option_price),
                      options |-> [loop.options EXCEPT
                                     ![k].num_contracts = NumContracts(option)]]
                ELSE loop)

\* best_strikes[best_strike].append(entry), the key being added when it is new
AddBestStrike(items, strike, entry) ==
    IF \E m \in DOMAIN items : items[m].strike = strike
    THEN [m \in DOMAIN items |->
            IF items[m].strike = strike
            THEN [items[m] EXCEPT !.entries = Append(@, entry)] ELSE items[m]]
    ELSE Append(items, [strike |-> strike, entries |-> <<entry>>])

\* one iteration of the loops over price_drops and iv_increases
Scenario ==
    /\ pc = "sweep"
    /\ scenarios < NDrops * NIvs
    /\ LET i == (scenarios \div NIvs) + 1
           j == (scenarios % NIvs) + 1
           loop == OptionLoop(1, i, j,
                      [best_payoff |-> NegInf, best_strike |-> -1,
                       best_strike_details |-> 0, details |-> details,
                       options |-> options])
       IN  /\ payoff_matrix' = [payoff_matrix EXCEPT ![i][j] = loop.best_payoff]
           /\ strike_matrix' = [strike_matrix EXCEPT ![i][j] = Fin(loop.best_strike)]
           /\ options' = loop.options
           /\ details' = loop.details
           /\ IF loop.best_strike_details = 0
              THEN \* best_strike_details['instrument_name'] with None: TypeError
                   /\ pc' = "crashed"
                   /\ UNCHANGED <<best_strikes, best_overall_payoff,
                                  best_overall_details, scenarios>>
              ELSE /\ pc' = "sweep"
                   /\ scenarios' = scenarios + 1
                   /\ best_strikes' =
                        AddBestStrike(best_strikes, loop.best_strike,
                          [price_drop |-> price_drops[i],
                           iv_increase |-> iv_increases[j],
                           payoff |-> loop.best_payoff,
                           instrument_name |->
                             loop.options[loop.best_strike_details].instrument_name,
                           num_contracts |->
                             loop.options[loop.best_strike_details].num_contracts])
                   /\ IF OverallBetter(loop.best_payoff, best_overall_payoff)
                      THEN /\ best_overall_payoff' = loop.best_payoff
                           /\ best_overall_details' = loop.details
                      ELSE UNCHANGED <<best_overall_payoff, best_overall_details>>
    /\ UNCHANGED <<script, response, prices, stdout>>
    /\ UNCHANGED notPayoffVars

\* the prints after the sweep: the best overall scenario, if there is one, then
\* every best strike, then strike_matrix
Report ==
    /\ pc = "sweep"
    /\ scenarios = NDrops * NIvs
    /\ pc' = "done"
    /\ stdout' = stdout
         \o (IF best_overall_details # <<>>
             THEN <<"Best Overall Scenario:", best_overall_details>> ELSE <<>>)
         \o best_strikes
         \o <<strike_matrix>>
    /\ UNCHANGED <<script, response, options, sweepVars>>
    /\ UNCHANGED notPayoffVars

InitPayoff ==
    /\ script = "best-payoff"
    /\ pc = "fetch"
    /\ response \in Responses
    /\ options = <<>>
    /\ SweepIdle
    /\ stdout = <<>>
    /\ annual_returns = <<>>
    /\ edges = <<>>
    /\ cutStatus = "none"
    /\ df_agg = <<>>
    /\ rngPos = 0
    /\ call = NoCall
    /\ simStatus = "none"
    /\ traj = <<>>
    /\ QuantileIdle
    /\ ExpiryIdle
    /\ ScreenIdle

NextPayoff == Fetch \/ Guard \/ PriceCheck \/ Scenario \/ Report

SpecPayoff == InitPayoff /\ [][NextPayoff]_vars

(***************************************************************************)
(* The efficient-price scripts: safe-heaven-eff-price-orginal.py           *)
(* ("eff-price-orginal"), safe-heaven-eff-price-opt-all.py                 *)
(* ("eff-price-opt-all"), safe-heaven-eff-price-opt.py ("eff-price-opt")   *)
(* and safe-heaven-eff-price-opt-bs.py ("eff-price-opt-bs").               *)
(*                                                                         *)
(* Prices are integers of cents; eff is in tenths; an efficient price is   *)
(* the exact fraction [num, den] with den > 0.                             *)
(***************************************************************************)
MaxPuts == 2       \* most rows of the one chain of orginal and opt-bs
MaxLoopPuts == 1   \* most rows of a chain of the scripts that loop over dates
MaxDates == 2      \* most dates of ticker.options within opt-all's window

CentDen == 100
EffDen == 10
PctDen == 100

\* get_next_n_monthly_expiries(3)
NumExpiries == 3

\* ticker.info['regularMarketOpen']
RegularMarketOpen == 100 * CentDen

ScreenScripts ==
    {"eff-price-orginal", "eff-price-opt-all", "eff-price-opt", "eff-price-opt-bs"}

\* the factor of target_price = regularMarketOpen * 0.85 (0.80 in opt-all)
TargetPct(s) == IF s = "eff-price-opt-all" THEN 80 ELSE 85

\* eff = 6.8 (5.4 in opt-all; eta in opt-bs)
eff(s) == IF s = "eff-price-opt-all" THEN 54 ELSE 68

TargetPrice(s) == (RegularMarketOpen * TargetPct(s)) \div PctDen

\* a screen that forgets the efficiency boundary
calcIntrinsicPrice(K, target, e) == [num |-> K - target, den |-> 1]

\* return (K - target_price) / (1 + eff)
calcEfficientPrice(K, target, e) ==
    [num |-> (K - target) * EffDen, den |-> EffDen + e]

\* opt['lastPrice'] <= opt['eff_price'], row by row
LastPriceLE(lastPrice, eff_price) == lastPrice * eff_price.den <= eff_price.num

\* rows of a puts table: strike below the target with a last price of a cent,
\* strike at the 85% target never traded, and strike 163 priced at and a cent
\* above (163 - 85) / 7.8 = 10
PutRows ==
    {[strike |-> 80 * CentDen, lastPrice |-> 1],
     [strike |-> 85 * CentDen, lastPrice |-> 0],
     [strike |-> 163 * CentDen, lastPrice |-> 10 * CentDen],
     [strike |-> 163 * CentDen, lastPrice |-> 10 * CentDen + 1]}

\* what ticker.option_chain(date) comes to: a ValueError (the date is not
\* listed) or a chain whose puts table has up to len rows
ChainOutcomes(len) ==
    {[kind |-> "ValueError", puts |-> <<>>]}
      \cup {[kind |-> "chain", puts |-> t] : t \in SeqsFromZero(PutRows, len)}

\* opt['eff_price'] = opt.apply(lambda x: calcEfficientPrice(x['strike'], ...), axis=1)
WithEffPrice(s, table, date) ==
    [m \in DOMAIN table |->
        [strike |-> table[m].strike,
         lastPrice |-> table[m].lastPrice,
         expirationDate |-> date,
         eff_price |-> calcEfficientPrice(table[m].strike, TargetPrice(s), eff(s))]]

\* opt.loc[opt['lastPrice'] <= opt['eff_price']]
Loc(table) ==
    LET Passes(row) == LastPriceLE(row.lastPrice, row.eff_price)
    IN  SelectSeq(table, Passes)

\* the screen of one table
Screen(s, table, date) == Loc(WithEffPrice(s, table, date))

\* what the scripts print about a screened table
ScreenMessage(filtered) ==
    IF filtered # <<>> THEN <<"Options for expiry date", filtered>>
    ELSE <<"No options meeting criteria for expiry date">>

SummaryMessage == <<"Current stock price", "Target price">>

\* safe-heaven-eff-price-orginal.py, lines 12 to 33
ScreenOrginal ==
    /\ script = "eff-price-orginal"
    /\ pc = "screen"
    /\ pc' = "done"
    /\ chain_no' = 1
    /\ target_price' = <<TargetPrice(script)>>
    /\ screened' = <<[date |-> 1, table |-> Screen(script, chains[1].puts, 1)]>>
    /\ stdout' = stdout \o <<"option_date", Screen(script, chains[1].puts, 1)>>
    /\ UNCHANGED <<script, chains, current_price>>
    /\ UNCHANGED <<annual_returns, edges, cutStatus, df_agg, response, options>>
    /\ UNCHANGED <<simVars, qVars, expiryVars, sweepVars>>

\* all_options = pd.concat([all_options, opt_chain], ignore_index=True), from
\* date k on
RECURSIVE ConcatChains(_, _)
ConcatChains(list, k) ==
    IF k > Len(list) THEN <<>>
    ELSE [m \in DOMAIN list[k].puts |->
             [strike |-> list[k].puts[m].strike,
              lastPrice |-> list[k].puts[m].lastPrice,
              expirationDate |-> k]]
         \o ConcatChains(list, k + 1)

\* the eff_price column over all_options, which keeps each row's expirationDate
WithEffPriceAll(s, table) ==
    [m \in DOMAIN table |->
        [strike |-> table[m].strike,
         lastPrice |-> table[m].lastPrice,
         expirationDate |-> table[m].expirationDate,
         eff_price |-> calcEfficientPrice(table[m].strike, TargetPrice(s), eff(s))]]

\* safe-heaven-eff-price-opt-all.py, lines 20 to 56
ScreenAll ==
    /\ script = "eff-price-opt-all"
    /\ pc = "screen"
    /\ pc' = "done"
    /\ chain_no' = Len(chains)
    /\ current_price' = <<RegularMarketOpen>>
    /\ target_price' = <<TargetPrice(script)>>
    /\ LET filtered_options == Loc(WithEffPriceAll(script, ConcatChains(chains, 1)))
       IN  /\ screened' = <<[date |-> 0, table |-> filtered_options]>>
           /\ stdout' = stdout \o ScreenMessage(filtered_options) \o SummaryMessage
    /\ UNCHANGED <<script, chains>>
    /\ UNCHANGED <<annual_returns, edges, cutStatus, df_agg, response, options>>
    /\ UNCHANGED <<simVars, qVars, expiryVars, sweepVars>>

\* (strike - target_price - lastPrice) / lastPrice * 100: a fraction, or what
\* float division by a zero lastPrice gives (inf, -inf or nan)
ExpectedReturn(strike, target, lastPrice) ==
    LET gain == strike - target - lastPrice
    IN  IF lastPrice # 0 THEN [cls |-> "fin", num |-> gain * 100, den |-> lastPrice]
        ELSE IF gain > 0 THEN [cls |-> "inf", num |-> 0, den |-> 1]
        ELSE IF gain < 0 THEN [cls |-> "-inf", num |-> 0, den |-> 1]
        ELSE [cls |-> "nan", num |-> 0, den |-> 1]

\* a > b for two expected returns; nothing compares with nan
ReturnGreater(a, b) ==
    IF a.cls = "nan" \/ b.cls = "nan" THEN FALSE
    ELSE IF a.cls = "inf" THEN b.cls # "inf"
    ELSE IF a.cls = "-inf" THEN FALSE
    ELSE IF b.cls = "inf" THEN FALSE
    ELSE IF b.cls = "-inf" THEN TRUE
    ELSE a.num * b.den > b.num * a.den

\* row goes before other in sort_values(..., ascending=False): larger first,
\* nan last
GoesBefore(row, other) ==
    IF row.expected_return.cls = "nan" THEN FALSE
    ELSE IF other.expected_return.cls = "nan" THEN TRUE
    ELSE ReturnGreater(row.expected_return, other.expected_return)

RECURSIVE InsertRow(_, _)
InsertRow(sorted, row) ==
    IF sorted = <<>> THEN <<row>>
    ELSE IF GoesBefore(row, Head(sorted)) THEN <<row>> \o sorted
    ELSE <<Head(sorted)>> \o InsertRow(Tail(sorted), row)

\* options_data.sort_values('Expected Return (Intrinsic) (%)', ascending=False);
\* rows of equal return keep their order
RECURSIVE SortValues(_)
SortValues(table) ==
    IF table = <<>> THEN <<>>
    ELSE InsertRow(SortValues([m \in 1..(Len(table) - 1) |-> table[m]]), table[Len(table)])

\* analyze_safe_haven_options: the two intrinsic columns, the expected return
\* and the sort
analyze_safe_haven_options(s, options_data) ==
    LET target == TargetPrice(s)
        Row(m) ==
            LET max_price == calcEfficientPrice(options_data[m].strike, target, eff(s))
            IN  [strike |-> options_data[m].strike,
                 lastPrice |-> options_data[m].lastPrice,
                 eff_price |-> max_price,
                 is_cost_effective |-> LastPriceLE(options_data[m].lastPrice, max_price),
                 expected_return |->
                    ExpectedReturn(options_data[m].strike, target, options_data[m].lastPrice)]
    IN  SortValues([m \in DOMAIN options_data |-> Row(m)])

\* safe-heaven-eff-price-opt-bs.py, main(): one expiry (num_months = 1), no
\* handler around ticker.option_chain
AnalyzeBs ==
    /\ script = "eff-price-opt-bs"
    /\ pc = "screen"
    /\ current_price' = <<RegularMarketOpen>>
    /\ chain_no' = 1
    /\ IF chains[1].kind = "ValueError"
       THEN /\ pc' = "crashed"
            /\ UNCHANGED <<screened, stdout>>
       ELSE /\ pc' = "done"
            /\ screened' = <<[date |-> 1,
                              table |-> analyze_safe_haven_options(script, chains[1].puts)]>>
            /\ stdout' = stdout \o <<analyze_safe_haven_options(script, chains[1].puts)>>
    /\ UNCHANGED <<script, chains, target_price>>
    /\ UNCHANGED <<annual_returns, edges, cutStatus, df_agg, response, options>>
    /\ UNCHANGED <<simVars, qVars, expiryVars, sweepVars>>

\* fetch_spy_options of safe-heaven-eff-price-opt.py: the puts table, or an
\* empty DataFrame after a ValueError
fetch_spy_options(outcome) ==
    IF outcome.kind = "ValueError" THEN <<>> ELSE outcome.puts

FetchSpyMessage(outcome) ==
    IF outcome.kind = "ValueError" THEN <<"Error fetching options for">> ELSE <<>>

\* one iteration of `for expiry_date in expiry_dates` of safe-heaven-eff-price-opt.py
OptExpiry ==
    /\ script = "eff-price-opt"
    /\ pc = "screen"
    /\ chain_no < Len(chains)
    /\ chain_no' = chain_no + 1
    /\ LET opt == fetch_spy_options(chains[chain_no + 1])
           filtered_opt == Screen(script, opt, chain_no + 1)
       IN  IF opt = <<>>
           THEN /\ stdout' = stdout \o FetchSpyMessage(chains[chain_no + 1])
                /\ UNCHANGED <<current_price, target_price, screened>>
           ELSE /\ current_price' = <<RegularMarketOpen>>
                /\ target_price' = <<TargetPrice(script)>>
                /\ screened' = Append(screened, [date |-> chain_no + 1, table |-> filtered_opt])
                /\ stdout' = stdout \o ScreenMessage(filtered_opt)
    /\ UNCHANGED <<script, pc, chains>>
    /\ UNCHANGED <<annual_returns, edges, cutStatus, df_agg, response, options>>
    /\ UNCHANGED <<simVars, qVars, expiryVars, sweepVars>>

\* the name was assigned
Bound(name) == name # <<>>

\* lines 60 and 61 of safe-heaven-eff-price-opt.py: the two prints after the
\* loop; reading a name no iteration assigned raises NameError
OptSummary ==
    /\ script = "eff-price-opt"
    /\ pc = "screen"
    /\ chain_no = Len(chains)
    /\ IF Bound(current_price)
       THEN /\ pc' = "done"
            /\ stdout' = stdout \o SummaryMessage
       ELSE /\ pc' = "crashed"
            /\ stdout' = stdout
    /\ UNCHANGED <<script, screenVars>>
    /\ UNCHANGED <<annual_returns, edges, cutStatus, df_agg, response, options>>
    /\ UNCHANGED <<simVars, qVars, expiryVars, sweepVars>>

\* the chains a run of script s may meet
ChainLists(s) ==
    IF s = "eff-price-orginal"
    THEN {<<c>> : c \in {o \in ChainOutcomes(MaxPuts) : o.puts # <<>>}}
    ELSE IF s = "eff-price-opt-bs"
    THEN {<<c>> : c \in {o \in ChainOutcomes(MaxPuts) : o.kind = "ValueError" \/ o.puts # <<>>}}
    ELSE IF s = "eff-price-opt"
    THEN [1..NumExpiries -> ChainOutcomes(MaxLoopPuts)]
    ELSE {l \in SeqsFromZero({o \in ChainOutcomes(MaxLoopPuts) : o.kind = "chain"}, MaxDates) :
            ConcatChains(l, 1) # <<>>}

InitScreen ==
    /\ script \in ScreenScripts
    /\ pc = "screen"
    /\ chains \in ChainLists(script)
    /\ chain_no = 0
    /\ current_price = <<>>
    /\ target_price = <<>>
    /\ screened = <<>>
    /\ annual_returns = <<>>
    /\ edges = <<>>
    /\ cutStatus = "none"
    /\ df_agg = <<>>
    /\ rngPos = 0
    /\ call = NoCall
    /\ simStatus = "none"
    /\ traj = <<>>
    /\ QuantileIdle
    /\ ExpiryIdle
    /\ PayoffIdle

NextScreen == ScreenOrginal \/ ScreenAll \/ AnalyzeBs \/ OptExpiry \/ OptSummary

SpecScreen == InitScreen /\ [][NextScreen]_vars

(***************************************************************************)
(* Properties.                                                             *)
(***************************************************************************)
Called == simStatus # "none"

Range(f) == {f[i] : i \in DOMAIN f}

\* the claim's per-draw factor for pool position d (0-based), times
\* AllocDen * RetDen * PayDen:
\* (1 - allocation) * (1 + return[d]) + allocation * payoffs[category[d]]
ClaimFactor(d) ==
    LET row == df_agg[d + 1]
    IN  (AllocDen - call.allocation) * (RetDen + row.returns) * PayDen
          + call.allocation * call.payoffs[row.category + 1] * RetDen

RECURSIVE ClaimProduct(_, _)
ClaimProduct(draws, t) ==
    IF t = 0 THEN 1 ELSE ClaimProduct(draws, t - 1) * ClaimFactor(draws[t])

\* C1: in bitcoin and spy every call with non-negative years and samples returns
\* a matrix, and in a returned samples x years matrix cell (i, t) is the product
\* over s = 0..t of
\* (1 - allocation) * (1 + return[d[i][s]]) + allocation * payoffs[category[d[i][s]]]
T_C1 ==
    /\ (Called /\ script \in {"bitcoin", "spy"} /\ call.years >= 0 /\ call.samples >= 0)
         => simStatus = "ok"
    /\ simStatus = "ok" =>
         /\ Len(traj) = call.samples
         /\ \A i \in 1..call.samples :
              /\ Len(traj[i]) = call.years
              /\ \A t \in 1..call.years :
                   traj[i][t] = ClaimProduct(call.sims[i], t)

\* a bitcoin call at allocation 0.5 over two years whose first path draws two
\* different observations, the first of them in the paying category 0
W_C1 ==
    /\ simStatus = "ok"
    /\ script = "bitcoin"
    /\ call.allocation = 1
    /\ call.payoffs = DefaultPayoffs("bitcoin")
    /\ call.years = 2
    /\ call.samples >= 1
    /\ call.sims[1][1] # call.sims[1][2]
    /\ df_agg[call.sims[1][1] + 1].category = 0

\* 0 <= allocation <= 1, years >= 1 and samples >= 1
ValidArguments ==
    /\ call.allocation \in 0..AllocDen
    /\ call.years >= 1
    /\ call.samples >= 1

SameArguments ==
    /\ call'.allocation = call.allocation
    /\ call'.payoffs = call.payoffs
    /\ call'.years = call.years
    /\ call'.samples = call.samples

\* C2: two calls of the simulator with identical (valid) parameters return
\* identical matrices, whatever the earlier call left in the global generator
CX_C2 ==
    [][(simStatus = "ok" /\ simStatus' = "ok" /\ SameArguments /\ ValidArguments)
          => traj' = traj]_vars

\* bin c (0-based) of the running script holds x, left-open and right-closed
InBinRightClosed(c, x) ==
    /\ EdgeLT(bins(script)[c + 1], x)
    /\ ~EdgeLT(bins(script)[c + 2], x)

\* bin c (0-based) of the running script holds x, left-closed and right-open
InBinLeftClosed(c, x) ==
    /\ EdgeLE(bins(script)[c + 1], x)
    /\ ~EdgeLE(bins(script)[c + 2], x)

\* C3 as amended: every binned return r with category c has edge[c] < r <= edge[c+1]
\* and carries the label of bin c, so a return equal to an interior edge[i+1] is in
\* bin i
T_C3 ==
    \A i \in DOMAIN df_agg :
        /\ InBinRightClosed(df_agg[i].category, df_agg[i].returns)
        /\ df_agg[i].label = labels(script)[df_agg[i].category + 1]

\* a bitcoin table with a return of exactly 0 binned as 1, "-15% to 0%"
W_C3 ==
    /\ script = "bitcoin"
    /\ pc = "sim"
    /\ \E i \in DOMAIN df_agg :
         /\ df_agg[i].returns = 0
         /\ df_agg[i].category = 1
         /\ df_agg[i].label = "-15% to 0%"

\* C3 as stated: every binned return r with category c has edge[c] <= r < edge[c+1],
\* so a return equal to an interior edge[i+1] is in bin i+1
CX_C3 ==
    \A i \in DOMAIN df_agg : InBinLeftClosed(df_agg[i].category, df_agg[i].returns)

\* C4: once the binning block has run, every return of the column has exactly one
\* category index in [0, N-1]; none is left uncategorized
CX_C4 ==
    pc # "cut" =>
        /\ pc # "crashed"
        /\ Len(df_agg) = Len(annual_returns)
        /\ \A i \in DOMAIN df_agg :
             df_agg[i].category \in 0..(Len(categories(script)) - 1)

\* C5: at every simulator call the payoff vector has exactly N entries, N the
\* number of categories of the bins in use
CX_C5 == Called => Len(call.payoffs) = Len(categories(script))

PoolMismatch ==
    \E i \in DOMAIN df_agg :
        df_agg[i].category < 0 \/ df_agg[i].category >= Len(call.payoffs)

\* C6: a call (with otherwise valid arguments) on a pool holding a category index
\* outside the payoff vector's range fails and returns no matrix, whether or not
\* that observation is drawn
CX_C6 == (Called /\ ValidArguments /\ PoolMismatch) => simStatus # "ok"

\* C7: no call draws from the generator and then fails: a failed call leaves the
\* random state as it found it
CX_C7 == simStatus \in {"IndexError", "ValueError"} => rngPos = call.rngBefore

InvalidArguments == ~ValidArguments

\* C8: a call with allocation outside [0, 1], or years <= 0 or samples <= 0, ends
\* in an error and returns no matrix
CX_C8 == (Called /\ InvalidArguments) => simStatus # "ok"

\* the k-th smallest entry of col, k from 0
OrderStat(col, k) ==
    CHOOSE v \in Range(col) :
        /\ Cardinality({i \in DOMAIN col : col[i] < v}) <= k
        /\ Cardinality({i \in DOMAIN col : col[i] <= v}) > k

\* |quantile - terminal value of row i|, times QDen
Dist(i) == Abs(quantile - trajectories.rows[i][trajectories.ncols] * QDen)

\* C9: getQuantilePath returns the linearly interpolated empirical q-quantile of
\* the terminal column and the row whose terminal value is closest to it, the
\* lowest-numbered such row when several are equally close
T_C9 ==
    qStatus = "ok" =>
        LET col == Terminal(trajectories)
            n == trajectories.nrows
            j == (q * (n - 1)) \div QDen
            g == (q * (n - 1)) % QDen
            next == IF j + 1 <= n - 1 THEN j + 1 ELSE n - 1
        IN  /\ quantile = (QDen - g) * OrderStat(col, j) + g * OrderStat(col, next)
            /\ \E k \in 1..n :
                 /\ path = trajectories.rows[k]
                 /\ \A i \in 1..n : Dist(k) <= Dist(i)
                 /\ \A i \in 1..(k - 1) : Dist(k) < Dist(i)

\* two rows with different terminal values are equally close to the quantile and
\* closest of all; the returned row is the earlier of them
W_C9 ==
    /\ qStatus = "ok"
    /\ trajectories.ncols = 2
    /\ \E i, k \in 1..trajectories.nrows :
         /\ i < k
         /\ Dist(i) = Dist(k)
         /\ trajectories.rows[i][2] # trajectories.rows[k][2]
         /\ \A m \in 1..trajectories.nrows : Dist(i) <= Dist(m)
         /\ path = trajectories.rows[i]

Median == q * 2 = QDen

PathDist == Abs(quantile - path[trajectories.ncols] * QDen)

\* C10 as amended: for q = 0.5 and at least two paths the selected path is at least
\* as close to the median as every path, and its distance is exactly half the gap
\* between the two middle terminal values (0 for an odd number of paths)
T_C10 ==
    (qStatus = "ok" /\ Median /\ trajectories.nrows >= 2) =>
        LET col == Terminal(trajectories)
            n == trajectories.nrows
        IN  /\ \A i \in 1..n : PathDist <= Dist(i)
            /\ 2 * PathDist
                 = (OrderStat(col, n \div 2) - OrderStat(col, (n - 1) \div 2)) * QDen

\* four paths whose two middle terminal values differ: the selected path is off
\* the median
W_C10 ==
    /\ qStatus = "ok"
    /\ Median
    /\ trajectories.nrows = 4
    /\ PathDist > 0

\* C10 as stated: for q = 0.5 and at least two paths the selected path's distance
\* to the median is at most the gap between the terminal values of any two
\* distinct paths
CX_C10 ==
    (qStatus = "ok" /\ Median /\ trajectories.nrows >= 2) =>
        \A i, k \in 1..trajectories.nrows :
            i # k => PathDist
                       <= Abs(trajectories.rows[i][trajectories.ncols]
                              - trajectories.rows[k][trajectories.ncols]) * QDen

\* the matrix handed to getQuantilePath has zero paths or zero periods
Degenerate == trajectories.nrows = 0 \/ trajectories.ncols = 0

Drew == simStatus \in {"ok", "IndexError"}

\* C12: with allocation = 0 and the same draws the simulator's output is the same
\* for every payoff vector
CX_C12 ==
    (Drew /\ call.allocation = 0) =>
        \A p \in PayoffChoices(script) :
            Outcome(0, p, call.sims) = [status |-> simStatus, traj |-> traj]

\* valid arguments and a payoff entry for every category of the pool
ValidInputs == ValidArguments /\ ~PoolMismatch

\* C13: for valid inputs the call returns a matrix of exactly samples rows and
\* years columns, and every cell is strictly positive whenever every per-draw
\* combined factor is strictly positive
T_C13 ==
    (Called /\ ValidInputs) =>
        /\ simStatus = "ok"
        /\ Len(traj) = call.samples
        /\ \A i \in 1..call.samples : Len(traj[i]) = call.years
        /\ (\A i \in 1..call.samples : \A t \in 1..call.years :
                ClaimFactor(call.sims[i][t]) > 0)
             => (\A i \in 1..call.samples : \A t \in 1..call.years : traj[i][t] > 0)

\* a 2 x 2 matrix returned at allocation 1, every drawn factor being positive
W_C13 ==
    /\ simStatus = "ok"
    /\ ValidInputs
    /\ call.allocation = AllocDen
    /\ call.samples = 2
    /\ call.years = 2
    /\ \A i \in 1..2 : \A t \in 1..2 :
         ClaimFactor(call.sims[i][t]) > 0 /\ traj[i][t] > 0

RECURSIVE Power(_, _)
Power(b, e) == IF e = 0 THEN 1 ELSE b * Power(b, e - 1)

AllOnes == \A k \in DOMAIN call.payoffs : call.payoffs[k] = PayDen

\* C14: on a pool of a single observation with return r and an all-ones payoff
\* vector, for every allocation in [0, 1], samples >= 1 and years >= 1 the call
\* returns a matrix whose every terminal value is
\* ((1 - allocation) * (1 + r) + allocation * 1) ^ years
T_C14 ==
    (Called /\ Len(df_agg) = 1 /\ AllOnes /\ ValidArguments) =>
        /\ simStatus = "ok"
        /\ \A i \in 1..call.samples :
             traj[i][call.years]
               = Power(((AllocDen - call.allocation) * (RetDen + df_agg[1].returns)
                          + call.allocation * RetDen) * PayDen,
                       call.years)

\* a bitcoin call at allocation 0.5 over two years on a single observation of
\* -20% with all payoffs 1
W_C14 ==
    /\ simStatus = "ok"
    /\ script = "bitcoin"
    /\ Len(df_agg) = 1
    /\ df_agg[1].returns = -4
    /\ AllOnes
    /\ call.allocation = 1
    /\ call.years = 2
    /\ call.samples = 2

\* C15: a simulator call leaves the data frame passed in (and the column it was
\* built from) and the caller's payoff list as they were, and touches nothing
\* of the quantile extractor; it changes only the generator and its result
T_C15 ==
    [][pc = "sim" =>
          /\ df_agg' = df_agg
          /\ annual_returns' = annual_returns
          /\ script' = script
          /\ call'.caller_payoffs = call'.payoffs
          /\ UNCHANGED qVars]_vars

\* a call on a pool of two observations has drawn and returned its matrix
W_C15 ==
    /\ simStatus = "ok"
    /\ ValidArguments
    /\ Len(df_agg) = 2
    /\ rngPos > call.rngBefore
    /\ call.caller_payoffs = DefaultPayoffs(script)
    /\ traj # <<>>

\* the bins list in use is not strictly increasing or has fewer than 2 edges
InvalidBoundaries ==
    \/ Len(edges) < 2
    \/ \E i \in 1..(Len(edges) - 1) : ~EdgeLess(edges[i], edges[i + 1])

IsThirdFriday(d) == Weekday(d) = 4 /\ Strftime(d).day \in 15..21

\* the first third Friday after day d
RECURSIVE ThirdFridayAfter(_)
ThirdFridayAfter(d) == IF IsThirdFriday(d + 1) THEN d + 1 ELSE ThirdFridayAfter(d + 1)

\* the first k third Fridays after day d, in increasing order
RECURSIVE UpcomingExpiries(_, _)
UpcomingExpiries(d, k) ==
    IF k = 0 THEN <<>>
    ELSE <<Strftime(ThirdFridayAfter(d))>> \o UpcomingExpiries(ThirdFridayAfter(d), k - 1)

\* C17: for every current date and every n >= 1, get_next_n_monthly_expiries(n)
\* returns exactly the n earliest third Fridays after the current date, in
\* increasing order, none skipped
CX_C17 ==
    (pc = "returned" /\ n_months >= 1) => expiries = UpcomingExpiries(today, n_months)

\* the request raised, or the response had no 'result' key
FetchFailed == response.kind \in {"RequestException", "no_result"}

\* C18: when the request raises or the response has no 'result' key,
\* fetch_deribit_data returns an empty list and the script goes from its guard
\* to the exit only: no price is computed, no matrix exists, no best result is
\* kept or printed
T_C18 ==
    FetchFailed =>
        /\ pc \in {"fetch", "guard", "exited"}
        /\ options = <<>>
        /\ SweepIdle
        /\ \A m \in DOMAIN stdout : stdout[m] # "Best Overall Scenario:"

\* the script has exited on a response without 'result'
W_C18 ==
    /\ response.kind = "no_result"
    /\ pc = "exited"
    /\ options = <<>>
    /\ stdout = <<"Error: No result found in API response.",
                  "No options data fetched. Exiting script.">>

\* scenario (i, j) has been swept
Swept(i, j) == (i - 1) * NIvs + (j - 1) < scenarios

\* relative payoff times affordable contracts of option k in scenario (i, j),
\* times TotalDen
ClaimTotal(k, i, j) ==
    ((prices[k][i][j] - options[k].marketPrice)
        * ((budget * MoneyDen) \div options[k].marketPrice) * TotalDen)
      \div options[k].marketPrice

\* the first option in list order whose total payoff in scenario (i, j) is the
\* largest
FirstBest(i, j) ==
    CHOOSE k \in DOMAIN options :
        /\ \A m \in DOMAIN options : ClaimTotal(m, i, j) <= ClaimTotal(k, i, j)
        /\ \A m \in 1..(k - 1) : ClaimTotal(m, i, j) < ClaimTotal(k, i, j)

\* C19: for every swept scenario (i, j), payoff_matrix[i, j] is the largest total
\* payoff (relative payoff times affordable contracts) over the fetched options
\* and strike_matrix[i, j] is the strike of the first option in list order that
\* attains it
T_C19 ==
    \A i \in 1..NDrops : \A j \in 1..NIvs :
        (pc \in {"sweep", "done"} /\ Swept(i, j)) =>
            /\ payoff_matrix[i][j] = Fin(ClaimTotal(FirstBest(i, j), i, j))
            /\ strike_matrix[i][j] = Fin(options[FirstBest(i, j)].strike)

\* in a swept scenario two options of different strikes have the same, largest,
\* total payoff and the strike written is that of the earlier one
W_C19 ==
    /\ pc \in {"sweep", "done"}
    /\ \E i \in 1..NDrops : \E j \in 1..NIvs :
         /\ Swept(i, j)
         /\ \E k, m \in DOMAIN options :
              /\ k < m
              /\ options[k].strike # options[m].strike
              /\ ClaimTotal(k, i, j) = ClaimTotal(m, i, j)
              /\ payoff_matrix[i][j] = Fin(ClaimTotal(k, i, j))
              /\ strike_matrix[i][j] = Fin(options[k].strike)

\* cell (i, j) holds the largest entry of payoff_matrix, and no cell before it in
\* row-major order does
FirstLargest(i, j) ==
    /\ \A a \in 1..NDrops : \A b \in 1..NIvs :
         ~EdgeLess(payoff_matrix[i][j], payoff_matrix[a][b])
    /\ \A a \in 1..NDrops : \A b \in 1..NIvs :
         ((a - 1) * NIvs + b < (i - 1) * NIvs + j)
            => EdgeLess(payoff_matrix[a][b], payoff_matrix[i][j])

\* C20: after the sweep best_overall_payoff is the largest entry of payoff_matrix
\* and best_overall_details holds the drop, IV increase, strike and instrument
\* of the first scenario in row-major order with that entry and of the option
\* that produced it
T_C20 ==
    (pc \in {"sweep", "done"} /\ scenarios = NDrops * NIvs) =>
        \E i \in 1..NDrops : \E j \in 1..NIvs :
            /\ FirstLargest(i, j)
            /\ best_overall_payoff = payoff_matrix[i][j]
            /\ best_overall_details.drop = price_drops[i]
            /\ best_overall_details.iv_increase = iv_increases[j]
            /\ Fin(best_overall_details.strike) = strike_matrix[i][j]
            /\ best_overall_details.instrument_name
                 = options[FirstBest(i, j)].instrument_name
            /\ best_overall_details.new_option_price = prices[FirstBest(i, j)][i][j]

\* cell (a, b) comes after cell (i, j) in row-major order
After(a, b, i, j) == (a - 1) * NIvs + b > (i - 1) * NIvs + j

\* the sweep is over, the largest entry stands in two scenarios, the first of
\* them not the first scenario, a smaller entry was written after it, and the
\* details are those of the first of the two
W_C20 ==
    /\ pc = "done"
    /\ Len(options) = 2
    /\ \E i, a, c \in 1..NDrops : \E j, b, d \in 1..NIvs :
         /\ FirstLargest(i, j)
         /\ <<i, j>> # <<1, 1>>
         /\ After(a, b, i, j)
         /\ payoff_matrix[a][b] = payoff_matrix[i][j]
         /\ After(c, d, i, j)
         /\ EdgeLess(payoff_matrix[c][d], payoff_matrix[i][j])
         /\ best_overall_details.drop = price_drops[i]
         /\ best_overall_details.iv_increase = iv_increases[j]

\* the entry is a put (its last field is P) with strike below the underlying
\* price, an ask that is present and positive, positive mark and underlying
\* prices and an expiry at least 30 whole days away
Eligible(entry) ==
    /\ entry.instrument_name[Len(entry.instrument_name)] = "P"
    /\ Float(entry.instrument_name[3]) < entry.underlying_price
    /\ entry.ask_none = FALSE
    /\ entry.ask_price > 0
    /\ entry.mark_price > 0
    /\ entry.underlying_price > 0
    /\ ~(entry.days < 30)

\* the positions of data['result'] that hold eligible entries
EligibleAt(result) == {m \in DOMAIN result : Eligible(result[m])}

\* C21: every option returned by fetch_deribit_data comes from an entry that is
\* a put with strike below the underlying price, a present and positive ask,
\* positive mark and underlying prices and an expiry at least 30 whole days
\* away; the list returned has one option per such entry, in order, and none
\* for any other entry
T_C21 ==
    (pc # "fetch" /\ response.kind = "result") =>
        /\ Len(options) = Cardinality(EligibleAt(response.result))
        /\ \A k \in DOMAIN options :
             \E m \in EligibleAt(response.result) :
                /\ Cardinality({a \in EligibleAt(response.result) : a <= m}) = k
                /\ options[k].instrument_name = response.result[m].instrument_name
                /\ options[k].underlying_price = response.result[m].underlying_price
                /\ options[k].strike < options[k].underlying_price
                /\ options[k].marketPrice > 0

\* the response held an entry expiring in 29 days and one expiring in 30; only
\* the second came back
W_C21 ==
    /\ pc # "fetch"
    /\ response.kind = "result"
    /\ Len(response.result) = 2
    /\ response.result[1].days = 29
    /\ response.result[2].days = 30
    /\ Len(options) = 1
    /\ options[1].instrument_name = response.result[2].instrument_name
    /\ options[1].strike = 30000

\* lastPrice <= (strike - target_price) / (1 + eff), cleared of the division:
\* lastPrice * (1 + eff) + target_price <= strike
WithinEfficientPrice(s, row) ==
    row.lastPrice * (EffDen + eff(s)) + TargetPrice(s) * EffDen <= row.strike * EffDen

\* the rows the screen numbered k was given
ScreenInput(k) ==
    IF script = "eff-price-opt-all" THEN ConcatChains(chains, 1)
    ELSE chains[screened[k].date].puts

\* strike and lastPrice of the rows of a table
StrikeAndLast(table) ==
    [m \in DOMAIN table |-> [strike |-> table[m].strike, lastPrice |-> table[m].lastPrice]]

\* the rows a screened table presents as cost-effective
KeptRows(table) ==
    LET Flagged(row) == row.is_cost_effective
    IN  IF script = "eff-price-opt-bs"
        THEN StrikeAndLast(SelectSeq(table, Flagged))
        ELSE StrikeAndLast(table)

\* how many times row occurs in table
Occurrences(table, row) == Cardinality({m \in DOMAIN table : table[m] = row})

\* C22: the screen keeps a row if and only if its last price is at most
\* (strike - target_price) / (1 + eff); no row with strike <= target_price and a
\* positive last price is kept
T_C22 ==
    \A k \in DOMAIN screened :
        LET Within(row) == WithinEfficientPrice(script, row)
            given == StrikeAndLast(ScreenInput(k))
            kept == KeptRows(screened[k].table)
        IN  /\ \A row \in PutRows :
                 Occurrences(kept, row)
                   = (IF Within(row) THEN Occurrences(given, row) ELSE 0)
            /\ script # "eff-price-opt-bs" => kept = SelectSeq(given, Within)
            /\ script = "eff-price-opt-bs" => Len(screened[k].table) = Len(given)
            /\ \A m \in DOMAIN kept :
                 ~(kept[m].strike <= TargetPrice(script) /\ kept[m].lastPrice > 0)

\* a two-row table, strike 80 with a last price of a cent and strike 163 at
\* exactly the efficient price of 10, was screened and only the second row is
\* kept
W_C22 ==
    /\ script \in {"eff-price-orginal", "eff-price-opt-bs"}
    /\ pc = "done"
    /\ StrikeAndLast(chains[1].puts)
         = <<[strike |-> 80 * CentDen, lastPrice |-> 1],
             [strike |-> 163 * CentDen, lastPrice |-> 10 * CentDen]>>
    /\ Len(screened) = 1
    /\ KeptRows(screened[1].table) = <<[strike |-> 163 * CentDen, lastPrice |-> 10 * CentDen]>>

\* fetching the chain of date k raised ValueError or gave an empty chain
FetchFailedAt(k) == chains[k].kind = "ValueError" \/ chains[k].puts = <<>>

\* the last two lines printed are the current-price and target-price summary
EndsWithSummary ==
    /\ Len(stdout) >= Len(SummaryMessage)
    /\ SubSeq(stdout, Len(stdout) - Len(SummaryMessage) + 1, Len(stdout)) = SummaryMessage

\* C23: in safe-heaven-eff-price-opt.py an expiry whose fetch raises ValueError
\* or yields an empty chain is skipped, every other expiry is still screened
\* and the run completes with the current-price and target-price summary,
\* whichever expiries fail, all of them included
CX_C23 ==
    (script = "eff-price-opt" /\ pc # "screen") =>
        /\ pc = "done"
        /\ chain_no = Len(chains)
        /\ {screened[m].date : m \in DOMAIN screened}
             = {k \in DOMAIN chains : ~FetchFailedAt(k)}
        /\ EndsWithSummary

\* a number of contracts and the market price (times MoneyDen) it was bought
\* at stay within the budget
WithinBudget(num_contracts, marketPrice) ==
    /\ num_contracts \in 0..budget
    /\ num_contracts * marketPrice <= budget * MoneyDen

\* C24: for every option that reaches the scenario sweep, the number of
\* contracts is a non-negative whole number not exceeding the budget and the
\* amount spent (num_contracts * market price) never exceeds the budget
T_C24 ==
    pc \in {"sweep", "done"} =>
        /\ \A k \in DOMAIN options :
             /\ options[k].marketPrice >= 1 * MoneyDen
             /\ WithinBudget((budget * MoneyDen) \div options[k].marketPrice,
                             options[k].marketPrice)
             /\ options[k].num_contracts # -1 =>
                    WithinBudget(options[k].num_contracts, options[k].marketPrice)
        /\ \A d \in {details, best_overall_details} :
             d # <<>> =>
                /\ WithinBudget(d.num_contracts, d.market_price)
                /\ d.amount_spent = d.num_contracts * d.market_price
                /\ d.amount_spent <= budget * MoneyDen
        /\ \A m \in DOMAIN best_strikes :
             \A e \in DOMAIN best_strikes[m].entries :
                best_strikes[m].entries[e].num_contracts \in 0..budget

\* in the sweep one option costs more than the budget and got 0 contracts,
\* another got contracts that spend the budget exactly
W_C24 ==
    /\ pc \in {"sweep", "done"}
    /\ \E k, m \in DOMAIN options :
         /\ options[k].marketPrice > budget * MoneyDen
         /\ options[k].num_contracts = 0
         /\ options[m].num_contracts > 0
         /\ options[m].num_contracts * options[m].marketPrice = budget * MoneyDen
    /\ best_overall_details # <<>>
    /\ best_overall_details.amount_spent = budget * MoneyDen

\* the latest simulator call made draws
MadeDraws == simStatus # "none" /\ Drawn(call.sims) # {}

\* the pool observation at position p, counted from 0
Observation(p) == df_agg[p + 1]

\* the one-period factor of a path whose first draw is the observation at
\* position p, times AllocDen * RetDen * PayDen
FirstFactor(p) ==
    (AllocDen - call.allocation) * (Observation(p).returns + RetDen) * PayDen
      + call.allocation * call.payoffs[Observation(p).category + 1] * RetDen

\* C25: every draw of the simulator is a valid position in the pool
\* (0 <= position < M), every pool observation can be drawn, and the return and
\* the category used for a draw are those of one and the same observation, in
\* the scripts that draw index labels and in safe-heaven.py after rows were
\* dropped
T_C25 ==
    /\ MadeDraws =>
         /\ \A l \in Drawn(call.sims) : l \in 0..(Len(df_agg) - 1)
         /\ simStatus = "ok" =>
              \A i \in DOMAIN traj : traj[i][1] = FirstFactor(call.sims[i][1])
    /\ pc = "sim" =>
         \A p \in 0..(Len(df_agg) - 1) :
            \E x \in 0..(Len(df_agg) - 1) :
                Choice(script, df_agg, <<<<x>>>>) = <<<<p>>>>

\* safe-heaven.py lost the first of two rows to dropna, the row left carries
\* index label 1 and the simulator drew it at position 0 and returned
W_C25 ==
    /\ script = "heaven"
    /\ Len(annual_returns) = 2
    /\ Len(df_agg) = 1
    /\ df_agg[1].index = 1
    /\ simStatus = "ok"
    /\ call.allocation = 1
    /\ Drawn(call.sims) = {0}
    /\ traj # <<>>

====
